---- MODULE Spec2Model ----
(***************************************************************************)
(* State-machine model of o2acq: the MainWindow start/stop handlers, the   *)
(* NIDAQController task life cycle, and the ImageAcquisitionService loop   *)
(* thread(s), with the camera and the DAQ device as nondeterministic       *)
(* collaborators (every call may succeed or raise).                        *)
(***************************************************************************)
EXTENDS Integers, Sequences, FiniteSets, TLC

VARIABLES win, daq, hw, cam, svc, err_pending, main_pc, ev, nfail, ui, store

vars == <<win, daq, hw, cam, svc, err_pending, main_pc, ev, nfail, ui, store>>

(* ------------------------------ bounds --------------------------------- *)

\* service objects that can exist at once (the current one plus orphans)
MaxServices == 2
\* frames one loop run may read in the single-run specification
MaxFrames == 4
\* frames one loop run may read in the application specification
MaxAppFrames == 0
\* mode checkboxes the user operates in the application specification
MaxAppModes == 2
\* exceptions injected into one loop run in the single-run specification
MaxFaults == 2
\* exceptions injected into one loop run in the application specification
MaxAppFaults == 1
\* frames and exceptions of one loop run in the long-run specification
MaxRingFrames == 30
MaxRingFaults == 2
\* frames one loop run may read in the restart specification
MaxRestartFrames == 1
\* frames and exceptions of one loop run in the lost-frame specification
MaxDesyncFrames == 6
MaxDesyncFaults == 1
\* frames read in a run that ends with the window closing
MaxCloseFrames == 2
\* device failures (camera, DAQ) injected into the main thread's calls
MaxDevFaults == 1

(* --------------------------- program constants ------------------------- *)

\* image_acquisition.py:92  "Keep only last 10 intervals per mode"
RingCap == 10

AllModes == <<"Bioluminescence", "Blue", "Green">>

ModeNames == {AllModes[i] : i \in DOMAIN AllModes}

ModeSet(modes) == {modes[i] : i \in DOMAIN modes}

Services == 1..MaxServices

(* ------------------- ImageAcquisitionService (QThread) ----------------- *)

\* pc: "none" no object, "new" constructed, "start" start() called and run()
\* not yet entered, "while" at the loop test, "body" inside one iteration,
\* "done" run() has returned.  nread, published, nfaults, nerrors and last
\* are history: frames read, (mode, frame, counter) emitted on
\* image_acquired, exceptions raised, messages emitted on acquisition_error,
\* and (in the single-run specification) the outcome of the last iteration;
\* stop_mark is the number of frames published when stop() set the flag
\* (-1 before).  shift and desync_at describe the camera: the frame the loop
\* reads as its k-th was exposed in slot k + shift of the replayed cycle
\* (shift 0: no frame lost or repeated so far), and desync_at is the number
\* of frames read when the camera lost or repeated one (-1: never).
NoService ==
    [pc |-> "none", running |-> FALSE, active_modes |-> <<>>,
     save_enabled |-> FALSE, image_counter |-> 0, saved_images |-> <<>>,
     frame_intervals |-> <<>>, last_frame_times |-> <<>>,
     current_mode |-> "", nread |-> 0, published |-> <<>>,
     nfaults |-> 0, nerrors |-> 0, last |-> "none", stop_mark |-> 0 - 1,
     shift |-> 0, desync_at |-> 0 - 1]

service_init == [NoService EXCEPT !.pc = "new"]

\* a set_active_modes that leaves the buffer as it is
set_active_modes_keep(t, modes) == [t EXCEPT !.active_modes = modes]

set_active_modes(t, modes) ==
    [t EXCEPT !.active_modes = modes,
              !.saved_images = [m \in ModeSet(modes) |-> <<>>]]

set_save_enabled(t, enabled) == [t EXCEPT !.save_enabled = enabled]

service_start(t) == [t EXCEPT !.pc = "start"]

run_begin(t) ==
    [t EXCEPT !.running = TRUE,
              !.image_counter = 0,
              !.frame_intervals = [m \in ModeSet(t.active_modes) |-> <<>>],
              !.last_frame_times = [m \in ModeSet(t.active_modes) |-> t.nread],
              !.pc = "while"]

while_test(t) == [t EXCEPT !.pc = IF t.running THEN "body" ELSE "done"]

\* a ring that never evicts
push_interval_unbounded(ring, x) == Append(ring, x)

push_interval(ring, x) ==
    LET r == Append(ring, x)
    IN  IF Len(r) > RingCap THEN SubSeq(r, Len(r) - RingCap + 1, Len(r)) ELSE r

\* a timeout that is counted as a frame
on_timeout_counts(t) == [t EXCEPT !.image_counter = @ + 1, !.pc = "while"]

on_timeout(t) == [t EXCEPT !.pc = "while"]

on_no_image(t) == [t EXCEPT !.pc = "while"]

\* read_newest_image returned a payload: the frame nread+1 of this run
read_image(t) == [t EXCEPT !.nread = @ + 1]

\* a cycle that runs through the active modes from the last to the first
assign_mode_backwards(t) ==
    [t EXCEPT !.current_mode =
        t.active_modes[Len(t.active_modes)
                           - (t.image_counter % Len(t.active_modes))]]

assign_mode(t) ==
    [t EXCEPT !.current_mode =
        t.active_modes[(t.image_counter % Len(t.active_modes)) + 1]]

record_interval(t) ==
    LET m == t.current_mode
        now == t.nread
    IN  [t EXCEPT !.frame_intervals[m] =
                      IF m \in DOMAIN t.last_frame_times
                      THEN push_interval(@, now - t.last_frame_times[m])
                      ELSE @,
                  !.last_frame_times[m] = now]

emit_image(t) ==
    [t EXCEPT !.published =
        Append(@, [mode |-> t.current_mode, frame |-> t.nread,
                   counter |-> t.image_counter, slot |-> t.nread + t.shift])]

\* a store that does not look at save_enabled
store_image_always(t) ==
    [t EXCEPT !.saved_images[t.current_mode] = Append(@, t.nread)]

store_image(t) ==
    IF t.save_enabled
    THEN [t EXCEPT !.saved_images[t.current_mode] = Append(@, t.nread)]
    ELSE t

advance_counter(t) == [t EXCEPT !.image_counter = @ + 1, !.pc = "while"]

raise_fault(t) == [t EXCEPT !.nfaults = @ + 1]

\* an except branch that only logs
on_exception_silent(t) == [t EXCEPT !.pc = "while"]

on_exception(t) == [t EXCEPT !.nerrors = @ + 1, !.pc = "while"]

\* the camera loses the frame of one slot: the loop never sees it
frame_dropped(t) == [t EXCEPT !.shift = @ + 1, !.desync_at = t.nread]

\* the camera delivers the frame of the last slot once more
frame_repeated(t) == [t EXCEPT !.shift = @ - 1, !.desync_at = t.nread]

LoopOutcomes ==
    {"timeout", "wait_raise", "no_image", "read_raise", "frame", "save_raise"}

iteration(t, o) ==
    CASE o = "timeout"    -> on_timeout(t)
      [] o = "wait_raise" -> on_exception(raise_fault(t))
      [] o = "no_image"   -> on_no_image(t)
      [] o = "read_raise" -> on_exception(raise_fault(t))
      [] o = "frame"      ->
            advance_counter(store_image(emit_image(
                record_interval(assign_mode(read_image(t))))))
      [] o = "save_raise" ->
            on_exception(raise_fault(emit_image(
                    record_interval(assign_mode(read_image(t))))))

\* signals queued to the main thread by one iteration
errors_emitted(t, o) == iteration(t, o).nerrors - t.nerrors

service_stop_flag(t) ==
    [t EXCEPT !.running = FALSE, !.stop_mark = Len(t.published)]

\* a wait() that does not wait
wait_returns_at_once(t) == TRUE

\* stop(): self.wait() returns once run() has returned
wait_returns(t) == t.pc = "done"

(* ----------------------------- NIDAQController -------------------------- *)

\* hw is the DAQ device as the driver sees it: open task objects, tasks that
\* are armed and replaying their buffer, and whether the port reads all-low.
HwInit == [open |-> 0, live |-> 0, lines_low |-> TRUE]

DaqInit == [task |-> "None", running |-> FALSE, current_pattern |-> "None"]

\* the pattern object built for a mode list (its samples are not needed here)
compiled(modes) == [modes |-> modes]

StopOutcomes == {"ok", "write_err", "stop_err", "close_err"}

StartOutcomes == {"ok", "task_err", "chan_err", "write_err"}

\* a stop_task without the finally block: a failing device call leaves the
\* fields as they were
stop_task_no_finally(d, h, o) ==
    IF d.task # "None"
    THEN LET wasLive == IF d.running THEN 1 ELSE 0
         IN  [daq |-> IF o = "ok" THEN DaqInit ELSE d,
              hw  |-> CASE o = "ok" ->
                             [open |-> h.open - 1, live |-> h.live - wasLive,
                              lines_low |-> TRUE]
                        [] o = "write_err" -> h
                        [] o = "stop_err"  -> [h EXCEPT !.lines_low = TRUE]
                        [] o = "close_err" ->
                             [h EXCEPT !.lines_low = TRUE, !.live = @ - wasLive],
              res |-> (o = "ok"),
              nf  |-> IF o = "ok" THEN 0 ELSE 1]
    ELSE [daq |-> d, hw |-> h, res |-> TRUE, nf |-> 0]

\* stop_task: write([0]), stop(), close() under try/except/finally
stop_task(d, h, o) ==
    IF d.task # "None"
    THEN LET wasLive == IF d.running THEN 1 ELSE 0
         IN  [daq |-> DaqInit,
              hw  |-> CASE o = "ok" ->
                             [open |-> h.open - 1, live |-> h.live - wasLive,
                              lines_low |-> TRUE]
                        [] o = "write_err" -> h
                        [] o = "stop_err"  -> [h EXCEPT !.lines_low = TRUE]
                        [] o = "close_err" ->
                             [h EXCEPT !.lines_low = TRUE, !.live = @ - wasLive],
              res |-> (o = "ok"),
              nf  |-> IF o = "ok" THEN 0 ELSE 1]
    ELSE [daq |-> d, hw |-> h, res |-> TRUE, nf |-> 0]

\* a start_task that leaves the running task alone
start_task_prelude_keep(d, h, o) == [daq |-> d, hw |-> h, res |-> TRUE, nf |-> 0]

\* start_task, "if self.running: ... self.stop_task()"
start_task_prelude(d, h, o) ==
    IF d.running THEN stop_task(d, h, o)
    ELSE [daq |-> d, hw |-> h, res |-> TRUE, nf |-> 0]

\* start_task: o.pre decides the stop of a running task, o.start the try
\* block, o.post the stop_task of the except branch
start_task(d, h, modes, o) ==
    LET p  == start_task_prelude(d, h, o.pre)
        d1 == [p.daq EXCEPT !.task = "Task"]
        h1 == [p.hw EXCEPT !.open = @ + 1]
        d2 == [d1 EXCEPT !.current_pattern = compiled(modes)]
        fail(dd, hh) ==
            LET c == stop_task(dd, hh, o.post)
            IN  [daq |-> c.daq, hw |-> c.hw, res |-> FALSE,
                 nf |-> p.nf + 1 + c.nf]
    IN  CASE o.start = "ok" ->
                [daq |-> [d2 EXCEPT !.running = TRUE],
                 hw  |-> [h1 EXCEPT !.live = @ + 1, !.lines_low = FALSE],
                 res |-> TRUE, nf |-> p.nf]
          [] o.start = "task_err"  -> fail(p.daq, p.hw)
          [] o.start = "chan_err"  -> fail(d1, h1)
          [] o.start = "write_err" -> fail(d2, h1)

(* ------------------------- NIDAQController: pattern -------------------- *)

\* start_task: the sample clock, "1000 Hz * period", "rate=1000"
SampleRate == 1000

\* _generate_pattern: "exposure trigger on line 4"
TriggerLine == 4

\* start_task: "8-bit port"
PortBits == 8

Pow2(b) == 2 ^ b

\* bit b of the sample v
Bit(v, b) == (v \div Pow2(b)) % 2 = 1

RECURSIVE or_from(_, _, _)
or_from(a, b, k) ==
    IF k = PortBits THEN 0
    ELSE (IF Bit(a, k) \/ Bit(b, k) THEN Pow2(k) ELSE 0) + or_from(a, b, k + 1)

\* Python's a | b on samples
BitOr(a, b) ==
    IF a = b \/ b = 0 THEN a ELSE IF a = 0 THEN b ELSE or_from(a, b, 0)

\* Python's int(x / y) for y # 0: truncation towards zero
TruncDiv(x, y) ==
    IF (x >= 0) = (y > 0) THEN (IF x >= 0 THEN x ELSE 0 - x) \div (IF y > 0 THEN y ELSE 0 - y)
    ELSE 0 - ((IF x >= 0 THEN x ELSE 0 - x) \div (IF y > 0 THEN y ELSE 0 - y))

\* start_task: num_active_modes = sum(modes[:3])
num_active_modes(modes) == Cardinality({i \in 1..3 : modes[i]})

\* start_task: mode_frequency, period, samples_per_period = int(1000 * period)
\* for the frequency num/den # 0 (the division is exact here; the float
\* computation gives the same integer for every frequency used)
samples_per_period(frequency, modes) ==
    LET n == num_active_modes(modes)
        k == IF n <= 1 THEN 1 ELSE n
    IN  TruncDiv(SampleRate * k * frequency.den, frequency.num)

\* a loop that writes from start_pos to the end of the pattern
or_window_open(v, i, start_pos, exp_samples, value) ==
    IF start_pos <= i THEN BitOr(v, value) ELSE v

\* "for i in range(exp_samples): if (start_pos + i) < samples_per_period:
\*      pattern[start_pos + i] |= value", seen from the sample at index i,
\* whose value was v: the loop reaches it iff it lies in the window
or_window(v, i, start_pos, exp_samples, value) ==
    IF start_pos <= i /\ i < start_pos + exp_samples
    THEN BitOr(v, value) ELSE v

\* a second pass that keeps the illumination on one sample longer
RECURSIVE sample_after_longer_light(_, _, _, _, _, _)
sample_after_longer_light(i, active_modes, k, mode_spacing, biolum_exp, fluo_exp) ==
    IF k = 0 THEN 0
    ELSE LET v == sample_after_longer_light(i, active_modes, k - 1, mode_spacing,
                                            biolum_exp, fluo_exp)
             mode_index == active_modes[k]
             start_pos == (k - 1) * mode_spacing
             exp_samples == IF mode_index = 0 THEN biolum_exp ELSE fluo_exp
             bit_value == IF mode_index = 0 THEN 0 ELSE Pow2(mode_index + 1)
             v1 == or_window(v, i, start_pos, exp_samples,
                             BitOr(bit_value, Pow2(TriggerLine)))
         IN  IF mode_index > 0
             THEN or_window(v1, i, start_pos, exp_samples + 1, bit_value)
             ELSE v1

\* _generate_pattern, "for idx, mode_index in enumerate(active_modes)": the
\* sample at index i after the first k active modes were processed
RECURSIVE sample_after(_, _, _, _, _, _)
sample_after(i, active_modes, k, mode_spacing, biolum_exp, fluo_exp) ==
    IF k = 0 THEN 0
    ELSE LET v == sample_after(i, active_modes, k - 1, mode_spacing,
                               biolum_exp, fluo_exp)
             mode_index == active_modes[k]
             start_pos == (k - 1) * mode_spacing
             exp_samples == IF mode_index = 0 THEN biolum_exp ELSE fluo_exp
             bit_value == IF mode_index = 0 THEN 0 ELSE Pow2(mode_index + 1)
             v1 == or_window(v, i, start_pos, exp_samples,
                             BitOr(bit_value, Pow2(TriggerLine)))
         IN  IF mode_index > 0
             THEN or_window(v1, i, start_pos, exp_samples, bit_value)
             ELSE v1

\* _generate_pattern (sample i is pattern[i + 1])
generate_pattern(modes, spp, biolum_exp, fluo_exp) ==
    LET active_modes == SelectSeq(<<0, 1, 2>>, LAMBDA i : modes[i + 1])
        n == Len(active_modes)
        mode_spacing == spp \div (IF n > 1 THEN n ELSE 1)
    IN  IF spp <= 0 THEN <<>>
        ELSE [j \in 1..spp |->
                 sample_after(j - 1, active_modes, n, mode_spacing,
                              biolum_exp, fluo_exp)]

\* the arguments of one start_task call
NoArgs ==
    [frequency |-> [num |-> 1, den |-> 1], modes |-> <<FALSE, FALSE, FALSE, TRUE>>,
     biolum_exp |-> 0, fluo_exp |-> 0]

\* a start_task that keeps the buffer of the task it replaces
start_task_pattern_reuse(d, h, args, o) ==
    IF args.frequency.num = 0
    THEN LET p == start_task_prelude(d, h, o.pre)
         IN  [daq |-> p.daq, hw |-> p.hw, res |-> FALSE, nf |-> p.nf,
              raised |-> TRUE]
    ELSE LET st == start_task(d, h, args.modes, o)
         IN  [daq |-> IF st.daq.task = "None" THEN st.daq
                      ELSE [st.daq EXCEPT !.current_pattern =
                               IF d.task # "None" THEN d.current_pattern
                               ELSE generate_pattern(
                                   args.modes,
                                   samples_per_period(args.frequency, args.modes),
                                   args.biolum_exp, args.fluo_exp)],
              hw |-> st.hw, res |-> st.res, nf |-> st.nf, raised |-> FALSE]

\* start_task with its samples: a zero frequency raises ZeroDivisionError
\* after the running task was stopped and before the try block; otherwise the
\* pattern object of start_task holds the samples of _generate_pattern
start_task_pattern(d, h, args, o) ==
    IF args.frequency.num = 0
    THEN LET p == start_task_prelude(d, h, o.pre)
         IN  [daq |-> p.daq, hw |-> p.hw, res |-> FALSE, nf |-> p.nf,
              raised |-> TRUE]
    ELSE LET st == start_task(d, h, args.modes, o)
         IN  [daq |-> IF st.daq.task = "None" THEN st.daq
                      ELSE [st.daq EXCEPT !.current_pattern =
                               generate_pattern(
                                   args.modes,
                                   samples_per_period(args.frequency, args.modes),
                                   args.biolum_exp, args.fluo_exp)],
              hw |-> st.hw, res |-> st.res, nf |-> st.nf, raised |-> FALSE]

(* --------------------------- CameraController -------------------------- *)

CamInit == [acquiring |-> FALSE]

camera_start(c, ok) == IF ok THEN [c EXCEPT !.acquiring = TRUE] ELSE c

camera_stop(c, ok) == IF ok THEN [c EXCEPT !.acquiring = FALSE] ELSE c

(* ------------------------ MainWindow / StateManager -------------------- *)

\* MainWindow.__init__ and setup_control_panel: IDLE, Bioluminescence
\* checked, Start enabled (never refreshed yet), Stop disabled
WinInit ==
    [acquisition_state |-> "IDLE", temperature_stabilized |-> FALSE,
     temp_override |-> FALSE, checks |-> {"Bioluminescence"},
     save_toggle |-> FALSE, start_enabled |-> TRUE, stop_enabled |-> FALSE,
     acq_service |-> 0]

\* a list that appends Green first and Bioluminescence last
get_active_modes_green_first(w) ==
    SelectSeq(<<"Green", "Blue", "Bioluminescence">>, LAMBDA m : m \in w.checks)

get_active_modes(w) == SelectSeq(AllModes, LAMBDA m : m \in w.checks)

validate_acquisition_ready(w) ==
    IF ~w.temperature_stabilized /\ ~w.temp_override THEN FALSE
    ELSE IF get_active_modes(w) = <<>> THEN FALSE
    ELSE TRUE

update_start_button_state(w) ==
    [w EXCEPT !.start_enabled = validate_acquisition_ready(w)]

update_ui_state(w) ==
    IF w.acquisition_state = "RUNNING"
    THEN [w EXCEPT !.start_enabled = FALSE, !.stop_enabled = TRUE]
    ELSE [update_start_button_state(w) EXCEPT !.stop_enabled = FALSE]

\* StateManager.update_state(acquisition_state=...) with its notification
update_acquisition_state(w, st) ==
    update_ui_state([w EXCEPT !.acquisition_state = st])

\* update_temperature: nothing when the temperature cannot be read
update_temperature(w, readable, stabilized) ==
    IF readable
    THEN update_start_button_state(
             update_ui_state([w EXCEPT !.temperature_stabilized = stabilized]))
    ELSE w

\* a guard that looks at the temperature only
start_guard_temperature_only(w) == w.temperature_stabilized \/ w.temp_override

\* the two guards that open start_acquisition
start_guard(w) == validate_acquisition_ready(w) /\ get_active_modes(w) # <<>>

(* ------------------- MainWindow: frequency and exposures --------------- *)

\* freq_combo.addItems(['0.5 Hz', '1 Hz', '2 Hz', '30 Hz'])
FreqItems ==
    <<[num |-> 1, den |-> 2], [num |-> 1, den |-> 1], [num |-> 2, den |-> 1],
      [num |-> 30, den |-> 1]>>

\* setup_control_panel: first combo item, QLineEdit("700"), QLineEdit("10")
UiInit == [freq_combo |-> 1, biolum_exposure |-> 700, fluo_exposure |-> 10]

\* period_ms = int((1.0 / frequency) * 1000)
period_ms(frequency) == (1000 * frequency.den) \div frequency.num

\* max_exposure = int(period_ms * 0.9)
max_exposure(frequency) == (period_ms(frequency) * 9) \div 10

\* a validator that accepts every number
validate_exposure_time_unclamped(u, field, text) ==
    [u EXCEPT ![field] = IF text.ok THEN text.val ELSE 0]

\* validate_exposure_time on textChanged: text.ok says whether int(text)
\* succeeds; setText re-enters the validator with a value it leaves alone
validate_exposure_time(u, field, text) ==
    LET max == max_exposure(FreqItems[u.freq_combo])
    IN  [u EXCEPT ![field] = IF ~text.ok THEN 0
                             ELSE IF text.val > max THEN max
                             ELSE text.val]

\* on_frequency_changed for the newly selected combo item
on_frequency_changed(u, item) ==
    LET max == max_exposure(FreqItems[item])
        biolum_exp == u.biolum_exposure
        fluo_exp == u.fluo_exposure
        at30 == FreqItems[item] = [num |-> 30, den |-> 1]
    IN  [freq_combo |-> item,
         biolum_exposure |-> IF at30 /\ biolum_exp < 1 THEN 1
                             ELSE IF biolum_exp > max THEN max
                             ELSE biolum_exp,
         fluo_exposure |-> IF at30 /\ fluo_exp < 1 THEN 1
                           ELSE IF fluo_exp > max THEN max
                           ELSE fluo_exp]

\* start_acquisition: freq, modes, biolum_exp, fluo_exp given to start_task
start_args(w, u) ==
    [frequency |-> FreqItems[u.freq_combo],
     modes |-> <<"Bioluminescence" \in w.checks, "Blue" \in w.checks,
                 "Green" \in w.checks, TRUE>>,
     biolum_exp |-> u.biolum_exposure,
     fluo_exp |-> u.fluo_exposure]

(* --------------------------- DataStorageService ------------------------- *)

\* save_path: a directory has been set.  The other fields are the history of
\* the last stop_acquisition that found images in its service's buffer: the
\* saved_images it read, where the loop thread was and whether the DAQ task
\* was running when it read them, whether it called save_image_stacks, and
\* the stacks written.
StoreInit ==
    [save_path |-> FALSE, read |-> FALSE, buffer |-> <<>>,
     reader_pc |-> "none", daq_live |-> FALSE, called |-> FALSE,
     stacks |-> <<>>]

\* the modes of a saved_images mapping that hold at least one image
NonEmptyModes(saved_images) ==
    {m \in DOMAIN saved_images : saved_images[m] # <<>>}

\* save_image_stacks: one TIFF stack per mode that has images; io is the set
\* of modes whose np.stack or imwrite raises (logged, the mode is skipped)
save_image_stacks(save_path, saved_images, io) ==
    IF ~save_path THEN [res |-> FALSE, stacks |-> <<>>, nf |-> 0]
    ELSE IF DOMAIN saved_images = {} THEN [res |-> FALSE, stacks |-> <<>>, nf |-> 0]
    ELSE LET failed == NonEmptyModes(saved_images) \cap io
         IN  [res |-> TRUE,
              stacks |-> [m \in NonEmptyModes(saved_images) \ failed |->
                             saved_images[m]],
              nf |-> Cardinality(failed)]

World ==
    [win |-> win, daq |-> daq, hw |-> hw, cam |-> cam, svc |-> svc,
     err_pending |-> err_pending, main_pc |-> main_pc, ev |-> ev,
     nfail |-> nfail, ui |-> ui, store |-> store]

\* ev records the last handler the main thread entered: start_acquisition,
\* handle_acquisition_error or another one, the step of start_acquisition
\* that failed, how start_task was called ("idle", "busy": a task was
\* running), whether it stopped the task that was running, what it answered,
\* and the arguments it was given.
Event(op) == [op |-> op, fail |-> "none", call |-> "none", prev |-> "none",
              res |-> TRUE, args |-> NoArgs]

RollbackOutcomes == [daq : StopOutcomes, cam : BOOLEAN, shutter : BOOLEAN]

\* stop_acquisition from "Stop NI-DAQ" on
stop_acquisition_rest(W, o) ==
    LET s  == stop_task(W.daq, W.hw, o.daq)
        w1 == [update_acquisition_state(W.win, "IDLE")
                   EXCEPT !.start_enabled = TRUE, !.stop_enabled = FALSE]
    IN  [W EXCEPT !.daq = s.daq,
                  !.hw = s.hw,
                  !.cam = camera_stop(@, o.cam),
                  !.win = IF o.shutter THEN w1 ELSE @,
                  !.main_pc = "idle",
                  !.nfail = @ + s.nf + (IF o.cam THEN 0 ELSE 1)
                              + (IF o.shutter THEN 0 ELSE 1)]

\* stop_acquisition, "Save data if enabled": reads acq_service.saved_images
\* and calls save_image_stacks when the toggle is checked, some mode holds
\* an image and a directory is set
stop_acquisition_save(W, io) ==
    LET imgs == W.svc[W.win.acq_service].saved_images
        called == W.win.save_toggle /\ W.store.save_path
        r == save_image_stacks(W.store.save_path, imgs, io)
    IN  IF NonEmptyModes(imgs) = {} THEN W
        ELSE [W EXCEPT !.store = [@ EXCEPT
                           !.read = TRUE,
                           !.buffer = imgs,
                           !.reader_pc = W.svc[W.win.acq_service].pc,
                           !.daq_live = W.daq.running,
                           !.called = called,
                           !.stacks = IF called THEN r.stacks ELSE <<>>],
                       !.nfail = @ + (IF called THEN r.nf ELSE 0)]

\* stop_acquisition after acq_service.stop() has returned: delattr
release_service(W) ==
    [W EXCEPT !.svc[W.win.acq_service] = NoService, !.win.acq_service = 0]

\* stop_acquisition: with a service, set its flag and block in wait()
stop_acquisition(W, o) ==
    IF W.win.acq_service # 0
    THEN [W EXCEPT !.svc[W.win.acq_service] = service_stop_flag(@),
                   !.main_pc = "stop_wait"]
    ELSE stop_acquisition_rest(W, o)

StartTaskOutcomes == [pre : StopOutcomes, start : StartOutcomes, post : StopOutcomes]

StartAcqOutcomes == [cam : BOOLEAN, daq : StartTaskOutcomes, rb : RollbackOutcomes]

\* a session is running: state RUNNING, a service object, the DAQ task live
session_running(W) ==
    /\ W.win.acquisition_state = "RUNNING"
    /\ W.win.acq_service # 0
    /\ W.daq.running

new_service(modes, save) ==
    service_start(set_save_enabled(set_active_modes(service_init, modes), save))

\* a start that creates and starts the service whatever start_task answers
start_acquisition_unchecked(W, o, slot) ==
    IF ~start_guard(W.win)
    THEN [W EXCEPT !.ev = [Event("start") EXCEPT !.fail = "not_ready"]]
    ELSE
    LET modes == get_active_modes(W.win)
        st == start_task(W.daq, W.hw, modes, o.daq)
    IN  [W EXCEPT !.win = [update_acquisition_state(@, "RUNNING") EXCEPT
                              !.acq_service = slot,
                              !.start_enabled = FALSE,
                              !.stop_enabled = TRUE],
                  !.ev = [Event("start") EXCEPT
                             !.res = st.res,
                             !.fail = IF st.res THEN "none" ELSE "daq",
                             !.args = start_args(W.win, W.ui)],
                  !.cam = camera_start(@, TRUE),
                  !.daq = st.daq,
                  !.hw = st.hw,
                  !.nfail = @ + st.nf,
                  !.svc[slot] = new_service(modes, W.win.save_toggle)]

start_acquisition(W, o, slot) ==
    IF ~start_guard(W.win)
    THEN [W EXCEPT !.ev = [Event("start") EXCEPT !.fail = "not_ready"]]
    ELSE
    LET modes == get_active_modes(W.win)
        W1 == [W EXCEPT !.win = update_acquisition_state(@, "RUNNING"),
                        !.ev = Event("start")]
        st == start_task(W.daq, W.hw, modes, o.daq)
        W2 == [W1 EXCEPT !.cam = camera_start(@, TRUE),
                         !.daq = st.daq,
                         !.hw = st.hw,
                         !.nfail = @ + st.nf,
                         !.ev.call = IF W.daq.running THEN "busy" ELSE "idle",
                         !.ev.prev =
                             IF ~W.daq.running THEN "none"
                             ELSE IF start_task_prelude(W.daq, W.hw, o.daq.pre)
                                         .daq.task = "None"
                                  THEN "stopped" ELSE "kept",
                         !.ev.res = st.res,
                         !.ev.args = start_args(W.win, W.ui)]
    IN  IF ~o.cam
        THEN stop_acquisition([W1 EXCEPT !.ev.fail = "camera",
                                         !.nfail = @ + 1], o.rb)
        ELSE IF ~st.res
        THEN stop_acquisition([W2 EXCEPT !.ev.fail = "daq"], o.rb)
        ELSE [W2 EXCEPT !.svc[slot] = new_service(modes, W.win.save_toggle),
                        !.win.acq_service = slot,
                        !.win.start_enabled = FALSE,
                        !.win.stop_enabled = TRUE]

\* an error handler that reports the fault and lets the session run
handle_acquisition_error_report_only(W, o) ==
    [W EXCEPT !.err_pending = @ - 1,
              !.ev = [Event("error") EXCEPT
                         !.call = IF session_running(W) THEN "session"
                                  ELSE "idle"]]

\* handle_acquisition_error: log, message box, stop_acquisition; ev.call
\* records whether a session was running when the signal arrived
handle_acquisition_error(W, o) ==
    stop_acquisition(
        [W EXCEPT !.err_pending = @ - 1,
                  !.ev = [Event("error") EXCEPT
                             !.call = IF session_running(W) THEN "session"
                                      ELSE "idle"]], o)

\* closeEvent after acq_service.stop(): the shutter is closed and the camera
\* is closed; an exception from the shutter skips the camera
close_event_rest(W, shutter) ==
    [W EXCEPT !.cam = IF shutter THEN camera_stop(@, TRUE) ELSE @,
              !.main_pc = "closed",
              !.nfail = @ + (IF shutter THEN 0 ELSE 1)]

\* closeEvent: with a service, set its flag and block in wait()
close_event(W, shutter) ==
    LET W1 == [W EXCEPT !.ev = [Event("close") EXCEPT
                                   !.call = IF session_running(W) THEN "session"
                                            ELSE "idle"]]
    IN  IF W.win.acq_service # 0
        THEN [W1 EXCEPT !.svc[W.win.acq_service] = service_stop_flag(@),
                        !.main_pc = "close_wait"]
        ELSE close_event_rest(W1, shutter)

(* -------------------------------- actions ------------------------------ *)

SetWorld(W) ==
    /\ win' = W.win
    /\ daq' = W.daq
    /\ hw' = W.hw
    /\ cam' = W.cam
    /\ svc' = W.svc
    /\ err_pending' = W.err_pending
    /\ main_pc' = W.main_pc
    /\ ev' = W.ev
    /\ nfail' = W.nfail
    /\ ui' = W.ui
    /\ store' = W.store

\* the outcomes a call can have here: a part of the outcome that the call
\* never reaches is fixed, and the failures stay within MaxDevFaults
RollbackChoices(reached) ==
    IF reached THEN RollbackOutcomes
    ELSE {[daq |-> "ok", cam |-> TRUE, shutter |-> TRUE]}

StartChoices ==
    {o \in StartAcqOutcomes :
        /\ (~daq.running => o.daq.pre = "ok")
        /\ (o.daq.start \in {"ok", "task_err"} => o.daq.post = "ok")
        /\ (~o.cam => o.daq = [pre |-> "ok", start |-> "ok", post |-> "ok"])
        /\ o.rb \in RollbackChoices(win.acq_service = 0
                                     /\ (~o.cam \/ o.daq.start # "ok"))}

FreeSlots == {s \in Services : svc[s].pc = "none"}

FirstFree == IF FreeSlots = {} THEN 0
             ELSE CHOOSE s \in FreeSlots : \A r \in FreeSlots : s <= r

\* QThread.start() ... run(): the thread enters run()
RunBegin(s) ==
    /\ svc[s].pc = "start"
    /\ svc' = [svc EXCEPT ![s] = run_begin(@)]
    /\ UNCHANGED <<win, daq, hw, cam, err_pending, main_pc, ev, nfail, ui, store>>

\* "while self.running:"
WhileTest(s) ==
    /\ svc[s].pc = "while"
    /\ svc' = [svc EXCEPT ![s] = while_test(@)]
    /\ UNCHANGED <<win, daq, hw, cam, err_pending, main_pc, ev, nfail, ui, store>>

\* one pass through the try block, at most maxF frames and maxE exceptions
\* per run, and at most maxE error signals waiting for the main thread; hist
\* says whether the outcome is kept in the history field last
LoopBody(s, maxF, maxE, hist) ==
    /\ svc[s].pc = "body"
    /\ \E o \in LoopOutcomes :
        /\ o \in {"frame", "save_raise"} => svc[s].nread < maxF
        /\ o = "save_raise" => svc[s].save_enabled
        /\ o \in {"wait_raise", "read_raise", "save_raise"}
              => svc[s].nfaults < maxE /\ err_pending < maxE
        /\ svc' = [svc EXCEPT ![s] =
                      [iteration(@, o) EXCEPT !.last = IF hist THEN o ELSE @]]
        /\ err_pending' = err_pending + errors_emitted(svc[s], o)
    /\ UNCHANGED <<win, daq, hw, cam, main_pc, ev, nfail, ui, store>>

\* the camera loses a frame, once per run
CameraDrops(s) ==
    /\ svc[s].pc \in {"while", "body"}
    /\ svc[s].desync_at < 0
    /\ svc' = [svc EXCEPT ![s] = frame_dropped(@)]
    /\ UNCHANGED <<win, daq, hw, cam, err_pending, main_pc, ev, nfail, ui, store>>

\* the camera delivers a frame twice, once per run
CameraRepeats(s) ==
    /\ svc[s].pc \in {"while", "body"}
    /\ svc[s].desync_at < 0
    /\ svc[s].nread >= 1
    /\ svc' = [svc EXCEPT ![s] = frame_repeated(@)]
    /\ UNCHANGED <<win, daq, hw, cam, err_pending, main_pc, ev, nfail, ui, store>>

\* a mode checkbox changes: stateChanged -> update_start_button_state
ToggleMode ==
    /\ main_pc = "idle"
    /\ \E m \in {AllModes[i] : i \in 1..MaxAppModes} :
        win' = update_start_button_state(
                   [win EXCEPT !.checks = IF m \in @ THEN @ \ {m} ELSE @ \cup {m}])
    /\ ev' = Event("other")
    /\ UNCHANGED <<daq, hw, cam, svc, err_pending, main_pc, nfail, ui, store>>

ToggleOverride ==
    /\ main_pc = "idle"
    /\ win' = update_start_button_state([win EXCEPT !.temp_override = ~@])
    /\ ev' = Event("other")
    /\ UNCHANGED <<daq, hw, cam, svc, err_pending, main_pc, nfail, ui, store>>

ToggleSave ==
    /\ main_pc = "idle"
    /\ win' = [win EXCEPT !.save_toggle = ~@]
    /\ ev' = Event("other")
    /\ UNCHANGED <<daq, hw, cam, svc, err_pending, main_pc, nfail, ui, store>>

\* temp_timer.timeout
UpdateTemperature ==
    /\ main_pc = "idle"
    /\ \E readable \in BOOLEAN, stabilized \in BOOLEAN :
        win' = update_temperature(win, readable, stabilized)
    /\ ev' = Event("other")
    /\ UNCHANGED <<daq, hw, cam, svc, err_pending, main_pc, nfail, ui, store>>

\* start_button.clicked (a disabled button emits nothing)
ClickStart ==
    /\ main_pc = "idle"
    /\ win.start_enabled
    /\ FirstFree \in Services
    /\ \E o \in StartChoices :
        LET W == start_acquisition(World, o, FirstFree)
        IN  W.nfail <= MaxDevFaults /\ SetWorld(W)

\* stop_button.clicked
ClickStop ==
    /\ main_pc = "idle"
    /\ win.stop_enabled
    /\ \E o \in RollbackChoices(win.acq_service = 0) :
        LET W == stop_acquisition([World EXCEPT !.ev = Event("other")], o)
        IN  W.nfail <= MaxDevFaults /\ SetWorld(W)

\* the queued acquisition_error signal reaches the main thread
HandleAcquisitionError ==
    /\ main_pc = "idle"
    /\ err_pending > 0
    /\ \E o \in RollbackChoices(win.acq_service = 0) :
        LET W == handle_acquisition_error(World, o)
        IN  W.nfail <= MaxDevFaults /\ SetWorld(W)

\* the modes whose stack can fail to be written by this stop
WriteFailures ==
    IF win.acq_service = 0 THEN {{}}
    ELSE SUBSET NonEmptyModes(svc[win.acq_service].saved_images)

\* QThread.wait() returns once run() has returned; stop_acquisition goes on
\* with the save section, delattr and the rest
StopWaitReturn ==
    /\ main_pc = "stop_wait"
    /\ wait_returns(svc[win.acq_service])
    /\ \E o \in RollbackOutcomes, io \in WriteFailures :
        LET W == stop_acquisition_rest(
                     release_service(stop_acquisition_save(World, io)), o)
        IN  W.nfail <= MaxDevFaults /\ SetWorld(W)

\* the user closes the window
CloseWindow ==
    /\ main_pc = "idle"
    /\ \E shutter \in BOOLEAN :
        LET W == close_event(World, shutter)
        IN  W.nfail <= MaxDevFaults /\ SetWorld(W)

\* closeEvent goes on once wait() has returned
CloseWaitReturn ==
    /\ main_pc = "close_wait"
    /\ wait_returns(svc[win.acq_service])
    /\ \E shutter \in BOOLEAN :
        LET W == close_event_rest(World, shutter)
        IN  W.nfail <= MaxDevFaults /\ SetWorld(W)

\* browse_button.clicked: a directory is chosen, set_save_path stores it
BrowseSaveDirectory ==
    /\ main_pc = "idle"
    /\ ~store.save_path
    /\ store' = [store EXCEPT !.save_path = TRUE]
    /\ ev' = Event("other")
    /\ UNCHANGED <<win, daq, hw, cam, svc, err_pending, main_pc, nfail, ui>>

\* what the user can type into an exposure field: text.ok says whether
\* int(text) succeeds, text.val is its value
ExposureTexts ==
    {[ok |-> FALSE, val |-> 0]}
        \cup {[ok |-> TRUE, val |-> v] : v \in {0 - 5, 20, 40, 600, 1000, 2500}}

\* freq_combo.currentTextChanged
ChangeFrequency ==
    /\ main_pc = "idle"
    /\ \E item \in DOMAIN FreqItems \ {ui.freq_combo} :
        ui' = on_frequency_changed(ui, item)
    /\ ev' = Event("other")
    /\ UNCHANGED <<win, daq, hw, cam, svc, err_pending, main_pc, nfail, store>>

\* biolum_exposure.textChanged
EditBiolumExposure ==
    /\ main_pc = "idle"
    /\ \E text \in ExposureTexts :
        ui' = validate_exposure_time(ui, "biolum_exposure", text)
    /\ ev' = Event("other")
    /\ UNCHANGED <<win, daq, hw, cam, svc, err_pending, main_pc, nfail, store>>

\* fluo_exposure.textChanged
EditFluoExposure ==
    /\ main_pc = "idle"
    /\ \E text \in ExposureTexts :
        ui' = validate_exposure_time(ui, "fluo_exposure", text)
    /\ ev' = Event("other")
    /\ UNCHANGED <<win, daq, hw, cam, svc, err_pending, main_pc, nfail, store>>

\* Bioluminescence and Blue at 2 Hz, exposures 200 ms and 10 ms
ExampleArgs ==
    [frequency |-> [num |-> 2, den |-> 1], modes |-> <<TRUE, TRUE, FALSE, TRUE>>,
     biolum_exp |-> 200, fluo_exp |-> 10]

\* the arguments a caller gives start_task: every mode list with a zero, a
\* high and a too high frequency and short, long and negative exposures, and
\* the 2 Hz example
CompileInputs ==
    [frequency : {[num |-> 0, den |-> 1], [num |-> 30, den |-> 1],
                  [num |-> 2000, den |-> 1]},
     modes : {<<a, b, c, TRUE>> : a \in BOOLEAN, b \in BOOLEAN, c \in BOOLEAN},
     biolum_exp : {0 - 5, 20, 700},
     fluo_exp : {10, 40}]
        \cup {ExampleArgs}

\* another configuration, compiled between two compilations of the same one
OtherArgs ==
    [frequency |-> [num |-> 30, den |-> 1], modes |-> <<FALSE, FALSE, TRUE, TRUE>>,
     biolum_exp |-> 20, fluo_exp |-> 25]

\* the outcomes of the device calls that a start_task call reaches here
CallChoices ==
    {o \in StartTaskOutcomes :
        /\ (~daq.running => o.pre = "ok")
        /\ (o.start \in {"ok", "task_err"} => o.post = "ok")}

\* a caller calls daq_controller.start_task(args); op names the call, and
\* ev.prev says which configuration was live before it: none, the same one,
\* the other one, or ("both") the other one that had replaced this one
StartTaskWith(args, op) ==
    \E o \in CallChoices :
        \E r \in {start_task_pattern(daq, hw, args, o)} :
            /\ nfail + r.nf <= MaxDevFaults
            /\ daq' = r.daq
            /\ hw' = r.hw
            /\ nfail' = nfail + r.nf
            /\ ev' = [ev EXCEPT
                        !.op = op,
                        !.res = r.res,
                        !.fail = IF r.raised THEN "raised"
                                 ELSE IF r.res THEN "none" ELSE "daq",
                        !.call = IF daq.running THEN "busy" ELSE "idle",
                        !.prev = IF ~daq.running THEN "none"
                                 ELSE IF ev.op = op THEN "same"
                                 ELSE IF ev.prev \in {"other", "both"}
                                 THEN "both" ELSE "other"]
            /\ UNCHANGED <<win, cam, svc, err_pending, main_pc, ui, store>>

\* start_task with the arguments of this run
StartTaskCall == StartTaskWith(ev.args, "start_task")

\* start_task with the other configuration
StartOtherCall == StartTaskWith(OtherArgs, "start_other")

\* a caller calls daq_controller.stop_task()
StopTaskCall ==
    \E o \in StopOutcomes :
        LET r == stop_task(daq, hw, IF daq.task = "None" THEN "ok" ELSE o)
        IN  /\ nfail + r.nf <= MaxDevFaults
            /\ daq' = r.daq
            /\ hw' = r.hw
            /\ nfail' = nfail + r.nf
            /\ ev' = [ev EXCEPT !.op = "stop_task", !.res = r.res]
            /\ UNCHANGED <<win, cam, svc, err_pending, main_pc, ui, store>>

(* ----------------------------- specifications -------------------------- *)

Init ==
    /\ win = WinInit
    /\ daq = DaqInit
    /\ hw = HwInit
    /\ cam = CamInit
    /\ svc = [s \in Services |-> NoService]
    /\ err_pending = 0
    /\ main_pc = "idle"
    /\ ev = Event("other")
    /\ nfail = 0
    /\ ui = UiInit
    /\ store = StoreInit

AppLoop == \E s \in Services : RunBegin(s) \/ WhileTest(s) \/ LoopBody(s, MaxAppFrames, MaxAppFaults, FALSE)

Next ==
    \/ ToggleMode
    \/ ToggleOverride
    \/ UpdateTemperature
    \/ ClickStart
    \/ ClickStop
    \/ HandleAcquisitionError
    \/ StopWaitReturn
    \/ AppLoop

Spec == Init /\ [][Next]_vars

\* One run: the states start_acquisition leaves when every step succeeds, for
\* each selection of modes and each setting of the save toggle; then the
\* loop thread runs against the owner's stop.
RunStart(checks, save) ==
    start_acquisition(
        [win |-> update_temperature(
                     [WinInit EXCEPT !.checks = checks, !.save_toggle = save],
                     TRUE, TRUE),
         daq |-> DaqInit, hw |-> HwInit, cam |-> CamInit,
         svc |-> [s \in Services |-> NoService],
         err_pending |-> 0, main_pc |-> "idle", ev |-> Event("other"),
         nfail |-> 0, ui |-> UiInit, store |-> StoreInit],
        [cam |-> TRUE, daq |-> [pre |-> "ok", start |-> "ok", post |-> "ok"],
         rb |-> [daq |-> "ok", cam |-> TRUE, shutter |-> TRUE]],
        1)

RunInit ==
    \E checks \in (SUBSET ModeNames) \ {{}}, save \in BOOLEAN :
        LET W == RunStart(checks, save)
        IN  /\ win = W.win
            /\ daq = W.daq
            /\ hw = W.hw
            /\ cam = W.cam
            /\ svc = W.svc
            /\ err_pending = W.err_pending
            /\ main_pc = W.main_pc
            /\ ev = W.ev
            /\ nfail = W.nfail
            /\ ui = W.ui
            /\ store = W.store

RunLoop == RunBegin(1) \/ WhileTest(1) \/ LoopBody(1, MaxFrames, MaxFaults, TRUE)

RunNext ==
    \/ RunLoop
    \/ ToggleSave
    \/ BrowseSaveDirectory
    \/ ClickStop
    \/ HandleAcquisitionError
    \/ StopWaitReturn

LoopSpec == RunInit /\ [][RunNext]_vars

\* The operating system schedules a runnable thread, and a wait() whose
\* thread has finished returns.
FairLoopSpec == LoopSpec /\ WF_vars(RunLoop) /\ WF_vars(StopWaitReturn)

\* One long run that nobody stops: enough frames for a mode's ring to
\* overflow, with a few faults so that the intervals differ.
RingLoop ==
    RunBegin(1) \/ WhileTest(1) \/ LoopBody(1, MaxRingFrames, MaxRingFaults, FALSE)

RingSpec == RunInit /\ [][RingLoop]_vars

\* Runs one after the other: the user sets the save options, starts, lets
\* the loop read a few frames, stops and starts again.
RestartLoop ==
    \E s \in Services :
        RunBegin(s) \/ WhileTest(s) \/ LoopBody(s, MaxRestartFrames, 0, FALSE)

RestartNext ==
    \/ ToggleOverride
    \/ ToggleSave
    \/ BrowseSaveDirectory
    \/ ClickStart
    \/ ClickStop
    \/ StopWaitReturn
    \/ RestartLoop

RestartSpec == Init /\ [][RestartNext]_vars

\* One run in which the camera loses or repeats one frame.
DesyncLoop ==
    RunBegin(1) \/ WhileTest(1)
        \/ LoopBody(1, MaxDesyncFrames, MaxDesyncFaults, TRUE)

DesyncNext == DesyncLoop \/ CameraDrops(1) \/ CameraRepeats(1)

DesyncSpec == RunInit /\ [][DesyncNext]_vars

\* One run that the user ends with Stop or by closing the window.
CloseLoop ==
    RunBegin(1) \/ WhileTest(1) \/ LoopBody(1, MaxCloseFrames, 0, FALSE)

CloseNext ==
    \/ CloseLoop
    \/ ClickStop
    \/ StopWaitReturn
    \/ CloseWindow
    \/ CloseWaitReturn

CloseSpec == RunInit /\ [][CloseNext]_vars

\* The settings before an acquisition: the user edits the exposure fields,
\* selects frequencies and modes in any order, and clicks Start, as long as
\* no service object exists.
PreStart == FreeSlots = Services

ConfigNext ==
    \/ PreStart /\ ChangeFrequency
    \/ PreStart /\ EditBiolumExposure
    \/ PreStart /\ EditFluoExposure
    \/ PreStart /\ ToggleMode
    \/ PreStart /\ ToggleOverride
    \/ PreStart /\ ClickStart

ConfigSpec == Init /\ [][ConfigNext]_vars

\* The controller alone: a caller with one configuration per run starts and
\* stops the task in any order, with the other configuration in between.
CompileInit ==
    /\ win = WinInit
    /\ daq = DaqInit
    /\ hw = HwInit
    /\ cam = CamInit
    /\ svc = [s \in Services |-> NoService]
    /\ err_pending = 0
    /\ main_pc = "idle"
    /\ \E a \in CompileInputs : ev = [Event("args") EXCEPT !.args = a]
    /\ nfail = 0
    /\ ui = UiInit
    /\ store = StoreInit

CompileNext == StartTaskCall \/ StartOtherCall \/ StopTaskCall

CompileSpec == CompileInit /\ [][CompileNext]_vars

(* -------------------------------- claims ------------------------------- *)

Alive(s) == svc[s].pc \in {"start", "while", "body"}

FailedStart == ev.op = "start" /\ ev.fail \in {"camera", "daq"} /\ main_pc = "idle"

\* C1: in one run, the k-th frame read (k from 0) is published with the mode
\* active_modes[k mod n].
ModeFollowsArrival ==
    \A s \in Services : \A i \in DOMAIN svc[s].published :
        LET t == svc[s]
            p == t.published[i]
        IN  p.mode = t.active_modes[((p.frame - 1) % Len(t.active_modes)) + 1]

\* C2: once stop() has set the flag and waits, the loop thread exits and
\* stop() returns.
StopReturns == (main_pc = "stop_wait") ~> (main_pc = "idle")

\* C3: an iteration that reads no frame and raises nothing leaves the counter,
\* the published frames, the save buffer, the interval rings and the last
\* arrival times as they were, queues no signal, and goes back to the loop
\* test.
NoFrameNoEffect ==
    [][\A s \in Services :
         ( /\ svc[s].pc = "body"
           /\ svc'[s].pc # "body"
           /\ svc'[s].nread = svc[s].nread
           /\ svc'[s].nfaults = svc[s].nfaults )
         => /\ svc'[s].image_counter = svc[s].image_counter
            /\ svc'[s].published = svc[s].published
            /\ svc'[s].saved_images = svc[s].saved_images
            /\ svc'[s].frame_intervals = svc[s].frame_intervals
            /\ svc'[s].last_frame_times = svc[s].last_frame_times
            /\ err_pending' = err_pending
            /\ svc'[s].pc = "while"]_vars

\* C3 witness: a timeout after two frames were counted and saved.
NoFrameAfterFrames ==
    /\ svc[1].last \in {"timeout", "no_image"}
    /\ svc[1].image_counter = 2
    /\ svc[1].save_enabled
    /\ svc[1].pc = "while"

StoppedMeansLow ==
    daq.task = "None" =>
        ~daq.running /\ daq.current_pattern = "None" /\ hw.lines_low

\* C6: after a start sequence that failed the state is ERROR.
FailedStartIsError == FailedStart => win.acquisition_state = "ERROR"

\* C7: after a start sequence that failed the controller is stopped and no
\* loop thread is alive.
FailedStartRolledBack ==
    FailedStart => (daq = DaqInit /\ \A s \in Services : ~Alive(s))

\* C8: while the state is RUNNING the Start button is disabled.
StartDisabledWhileRunning ==
    win.acquisition_state = "RUNNING" => ~win.start_enabled

\* C9: the state becomes RUNNING only with a mode checked, and with no mode
\* checked no step enters RUNNING, opens or starts a DAQ task, or starts a
\* loop thread.
ModeGate ==
    [][ /\ (win.acquisition_state # "RUNNING" /\ win'.acquisition_state = "RUNNING")
            => win.checks # {}
        /\ win.checks = {} =>
            /\ win'.acquisition_state = "RUNNING"
                   => win.acquisition_state = "RUNNING"
            /\ daq'.task = "Task" => daq' = daq
            /\ hw'.open <= hw.open
            /\ \A s \in Services : svc'[s].pc = "start" => svc[s].pc = "start"
      ]_vars

\* C9 witness: Start was clicked with no mode checked and the state is IDLE.
StartRefusedWithoutModes ==
    /\ ev.op = "start"
    /\ ev.fail = "not_ready"
    /\ win.checks = {}
    /\ win.temperature_stabilized
    /\ win.acquisition_state = "IDLE"
    /\ daq = DaqInit

\* C10: every exception of an iteration is emitted once on acquisition_error
\* and sends the loop back to its test; run() returns only from the test, with
\* the flag cleared.
FaultReportedOnce ==
    /\ [](\A s \in Services : svc[s].nerrors = svc[s].nfaults)
    /\ [][\A s \in Services :
            /\ svc'[s].nfaults > svc[s].nfaults
                  => /\ svc'[s].nfaults = svc[s].nfaults + 1
                     /\ err_pending' = err_pending + 1
                     /\ svc'[s].pc = "while"
            /\ (svc[s].pc # "done" /\ svc'[s].pc = "done")
                  => (svc[s].pc = "while" /\ ~svc[s].running)]_vars

\* C10 witness: two exceptions were reported and the loop is in its next
\* iteration.
StillIteratingAfterFaults ==
    /\ svc[1].nfaults = 2
    /\ svc[1].nerrors = 2
    /\ svc[1].running
    /\ svc[1].pc = "body"

\* C11 as claimed: after the owner has handled an in-loop fault of a running
\* session, the state is still RUNNING, the DAQ task is live and the service
\* is still there.
SessionSurvivesFault ==
    (ev.op = "error" /\ ev.call = "session" /\ main_pc = "idle") =>
        /\ win.acquisition_state = "RUNNING"
        /\ daq.running
        /\ win.acq_service # 0

\* C11 amended: the owner's handler stops the session: it waits for the
\* service's thread, and when it has returned the service is released, the
\* controller is stopped, and the state is IDLE with Stop disabled unless a
\* device call of the stop failed.
FaultStopsSession ==
    (ev.op = "error" /\ ev.call = "session") =>
        /\ main_pc = "stop_wait" => win.acq_service # 0
        /\ main_pc = "idle" =>
              /\ win.acq_service = 0
              /\ daq = DaqInit
              /\ win.acquisition_state # "IDLE" => nfail > 0
              /\ win.acquisition_state = "IDLE" =>
                     (win.start_enabled /\ ~win.stop_enabled)

\* C11 witness: the handler stopped a running session and the state is IDLE.
SessionStoppedByFault ==
    /\ ev.op = "error"
    /\ ev.call = "session"
    /\ main_pc = "idle"
    /\ win.acquisition_state = "IDLE"
    /\ win.acq_service = 0

\* C20: the device never holds more than one open task, and never replays
\* more than one pattern.
OneOpenTask == hw.open <= 1 /\ hw.live <= 1

(* --------------------------- claims on the pattern --------------------- *)

\* the pattern of this run's configuration is the one the controller holds
Loaded == ev.op = "start_task" /\ daq.task # "None"

\* the active modes in the order of the mode list (0 Bioluminescence, 1 Blue,
\* 2 Green)
ActiveModes(modes) == SelectSeq(<<0, 1, 2>>, LAMBDA m : modes[m + 1])

\* the exposure of a mode: biolum_exp for Bioluminescence, fluo_exp otherwise
ExposureOf(args, m) == IF m = 0 THEN args.biolum_exp ELSE args.fluo_exp

\* the sample index i lies in the exposure window of the mode at position k
InWindow(args, slot, k, i) ==
    /\ k * slot <= i
    /\ i < k * slot + ExposureOf(args, ActiveModes(args.modes)[k + 1])

\* C12: the pattern has round(1000 * n / f) samples (n > 1) or round(1000 / f)
\* samples (n <= 1), that is, its length is within half a sample of that
\* quotient, and it has at least one sample.
LengthIsRounded ==
    Loaded =>
        LET n == Cardinality({m \in 1..3 : ev.args.modes[m]})
            k == IF n > 1 THEN n ELSE 1
            len == Len(daq.current_pattern)
            num == ev.args.frequency.num
            diff == 2 * len * num - 2 * 1000 * k * ev.args.frequency.den
        IN  /\ diff <= num
            /\ 0 - diff <= num
            /\ len >= 1

\* C13: a start_task call with no mode, a frequency <= 0 or a negative
\* exposure answers False and leaves no pattern and no task in the controller.
InvalidConfigRejected ==
    ( /\ ev.op = "start_task"
      /\ \/ \A m \in 1..3 : ~ev.args.modes[m]
         \/ ev.args.frequency.num <= 0
         \/ ev.args.biolum_exp < 0
         \/ ev.args.fluo_exp < 0 )
    => (~ev.res /\ daq = DaqInit)

\* C14: in every sample bits 0 and 3 are clear, bit 1 is set only with Blue
\* active and bit 2 only with Green active, and with Bioluminescence alone no
\* bit but bit 4 is set.
IlluminationLines ==
    Loaded =>
        \A j \in DOMAIN daq.current_pattern :
            LET v == daq.current_pattern[j]
            IN  /\ ~Bit(v, 0)
                /\ ~Bit(v, 3)
                /\ Bit(v, 1) => ev.args.modes[2]
                /\ Bit(v, 2) => ev.args.modes[3]
                /\ (~ev.args.modes[2] /\ ~ev.args.modes[3]) => v \in {0, 16}

\* C15: bit 4 of the sample at index i is set iff i lies in the exposure
\* window [k * slot, k * slot + exposure_k) of some active mode, with
\* slot = floor(length / n), and a sample in no window is 0.
TriggerInWindows ==
    Loaded =>
        LET p == daq.current_pattern
            n == Len(ActiveModes(ev.args.modes))
            slot == Len(p) \div n
            inSome(i) == \E k \in 0..(n - 1) : InWindow(ev.args, slot, k, i)
        IN  \A i \in 0..(Len(p) - 1) :
                /\ Bit(p[i + 1], 4) <=> inSome(i)
                /\ ~inSome(i) => p[i + 1] = 0

\* C15 witness: the 2 Hz example is live, with a sample inside a window and a
\* sample outside every window.
ExampleIsLive ==
    /\ Loaded
    /\ daq.running
    /\ ev.args = ExampleArgs
    /\ Bit(daq.current_pattern[1], 4)
    /\ daq.current_pattern[201] = 0

ExposureWithinPeriod ==
    (ev.op = "start" /\ ev.call # "none") =>
        LET f == ev.args.frequency
        IN  /\ 10 * ev.args.biolum_exp * f.num <= 9 * 1000 * f.den
            /\ 10 * ev.args.fluo_exp * f.num <= 9 * 1000 * f.den

\* C17 witness: start_task was called at 30 Hz with exposures that had to be
\* cut down to 29 ms.
StartedWithClampedExposure ==
    /\ ev.op = "start"
    /\ ev.call # "none"
    /\ ev.res
    /\ ev.args.frequency = [num |-> 30, den |-> 1]
    /\ ev.args.biolum_exp = 29
    /\ ev.args.fluo_exp = 29

\* C18: for Bioluminescence and Blue at 2 Hz with exposures 200 and 10 the
\* pattern has 1000 samples, bit 4 set exactly on [0, 200) and [500, 510),
\* bit 1 set exactly on [500, 510), and 0 everywhere else.
EndToEndExample ==
    (Loaded /\ ev.args = ExampleArgs) =>
        /\ Len(daq.current_pattern) = 1000
        /\ \A i \in 0..999 :
            LET v == daq.current_pattern[i + 1]
                lit == 500 <= i /\ i < 510
                trig == i < 200 \/ lit
            IN  /\ Bit(v, 4) <=> trig
                /\ Bit(v, 1) <=> lit
                /\ ~trig => v = 0

CounterStrictlyIncreasing ==
    \A s \in Services : \A i, j \in DOMAIN svc[s].published :
        i < j => svc[s].published[i].counter < svc[s].published[j].counter

\* the arrival times (frame numbers) of the published frames of mode m
Arrivals(t, m) ==
    LET ps == SelectSeq(t.published, LAMBDA p : p.mode = m)
    IN  [i \in DOMAIN ps |-> ps[i].frame]

\* the intervals of mode m in arrival order, each measured from the mode's
\* own previous arrival (from the start of the run for the first)
Intervals(t, m) ==
    LET a == Arrivals(t, m)
    IN  [i \in DOMAIN a |-> a[i] - (IF i = 1 THEN 0 ELSE a[i - 1])]

LastOf(seq, n) ==
    IF Len(seq) > n THEN SubSeq(seq, Len(seq) - n + 1, Len(seq)) ELSE seq

\* C22: every mode's ring holds at most 10 intervals, exactly the last 10 (or
\* fewer) intervals of that mode in arrival order, and the mode's last-seen
\* time is its own last arrival: frames of other modes change neither.
RingHoldsLastTen ==
    \A s \in Services :
        svc[s].pc \in {"while", "body", "done"} =>
            \A m \in ModeSet(svc[s].active_modes) :
                /\ Len(svc[s].frame_intervals[m]) <= RingCap
                /\ svc[s].frame_intervals[m]
                       = LastOf(Intervals(svc[s], m), RingCap)
                /\ svc[s].last_frame_times[m]
                       = (IF Arrivals(svc[s], m) = <<>> THEN 0
                          ELSE Arrivals(svc[s], m)[Len(Arrivals(svc[s], m))])

\* C22 witness: with two active modes, a mode has had more than 15 intervals
\* pushed and its ring holds 10 of them that are not all equal.
RingOverflowed ==
    /\ Len(svc[1].active_modes) = 2
    /\ \E m \in ModeSet(svc[1].active_modes) :
          /\ Len(Intervals(svc[1], m)) > 15
          /\ Len(svc[1].frame_intervals[m]) = RingCap
          /\ svc[1].frame_intervals[m][1] # svc[1].frame_intervals[m][RingCap]

\* C23 as claimed: with saving enabled every published frame is in the save
\* buffer of its mode, once and in arrival order, and in no other buffer.
SavedAllPublished ==
    \A s \in Services :
        (svc[s].pc \in {"while", "body", "done"} /\ svc[s].save_enabled) =>
            \A m \in ModeSet(svc[s].active_modes) :
                svc[s].saved_images[m] = Arrivals(svc[s], m)

\* C23 amended: an iteration that publishes a frame with saving enabled and
\* raises nothing appends that frame, once, at the end of the buffer of the
\* mode it was assigned to and leaves the other buffers alone; an iteration
\* that raises, that publishes nothing or that runs with saving disabled
\* leaves the save buffer unchanged, and so does every other step while the
\* service object exists.
SaveEffect ==
    [][\A s \in Services :
         (svc[s].pc \notin {"none", "new"} /\ svc'[s].pc # "none") =>
            IF /\ svc[s].pc = "body"
               /\ Len(svc'[s].published) = Len(svc[s].published) + 1
               /\ svc'[s].nfaults = svc[s].nfaults
               /\ svc[s].save_enabled
            THEN LET p == svc'[s].published[Len(svc'[s].published)]
                 IN  svc'[s].saved_images =
                        [svc[s].saved_images EXCEPT ![p.mode] = Append(@, p.frame)]
            ELSE svc'[s].saved_images = svc[s].saved_images]_vars

\* C23 witness: a run with two modes and saving enabled has saved frames of
\* both modes and has published one frame whose save raised.
SavedThroughFault ==
    /\ svc[1].save_enabled
    /\ Len(svc[1].active_modes) = 2
    /\ \A m \in ModeSet(svc[1].active_modes) : svc[1].saved_images[m] # <<>>
    /\ svc[1].last = "save_raise"
    /\ svc[1].pc = "while"

\* C24: the owner reads the save buffer (and hands it to persistence) only
\* when the loop thread that appends to it has returned from run(); while the
\* owner waits in stop() it has read nothing of the service it waits for.
ReadAfterLoopExit ==
    /\ store.read => store.reader_pc = "done"
    /\ store.called => store.read /\ store.reader_pc = "done"

\* C24 witness: a buffer holding frames was read by the owner and handed to
\* save_image_stacks.
BufferHandedOver ==
    /\ store.called
    /\ NonEmptyModes(store.buffer) # {}
    /\ main_pc = "idle"

\* C25: on the stop path the save buffer is flushed to persistence after the
\* trigger sequencer has been stopped, never while the DAQ task is still
\* running.
FlushAfterSequencerStop == store.called => ~store.daq_live

\* C26: a service object is created and its thread started only in a
\* start_acquisition whose start_task has answered True, and at that moment
\* the DAQ task is open and running with the pattern compiled for the modes
\* the service was given; a running task always holds a compiled pattern.
StartOrder ==
    [][\A s \in Services :
         (svc[s].pc = "none" /\ svc'[s].pc # "none") =>
            /\ svc'[s].pc = "start"
            /\ ev'.op = "start"
            /\ ev'.res
            /\ ev'.fail = "none"
            /\ daq'.running
            /\ daq'.task = "Task"
            /\ daq'.current_pattern = compiled(svc'[s].active_modes)
            /\ hw'.live >= 1]_vars

\* C26 witness: a start has just succeeded: the task runs and the new
\* thread has not entered run() yet.
LoopStartedAfterSequencer ==
    /\ ev.op = "start"
    /\ ev.res
    /\ win.acq_service \in Services
    /\ svc[win.acq_service].pc = "start"
    /\ daq.running
    /\ main_pc = "idle"

\* C27: every frame that was in the save buffer when the run was stopped has
\* been handed to persistence, per mode and in arrival order, whatever the
\* save toggle and the save path are at the moment of the stop.
NoSavedFrameDiscarded ==
    store.read =>
        /\ store.called
        /\ store.stacks =
               [m \in NonEmptyModes(store.buffer) |-> store.buffer[m]]

\* C28: a run that has not read a frame yet starts from nothing: its counter
\* is 0, it has published nothing, and the save buffer of every active mode
\* and (once run() has begun) every interval ring is empty, whatever earlier
\* runs have read and saved.
FreshRun ==
    \A s \in Services :
        (svc[s].pc \in {"start", "while", "body"} /\ svc[s].nread = 0) =>
            /\ svc[s].image_counter = 0
            /\ svc[s].published = <<>>
            /\ DOMAIN svc[s].saved_images = ModeSet(svc[s].active_modes)
            /\ \A m \in DOMAIN svc[s].saved_images : svc[s].saved_images[m] = <<>>
            /\ svc[s].pc # "start" =>
                  /\ DOMAIN svc[s].frame_intervals = ModeSet(svc[s].active_modes)
                  /\ \A m \in DOMAIN svc[s].frame_intervals :
                        svc[s].frame_intervals[m] = <<>>

\* C28 witness: an earlier run was stopped with frames in its buffer, and the
\* run after it is in its first iteration with saving enabled.
SecondRunFirstIteration ==
    /\ store.read
    /\ NonEmptyModes(store.buffer) # {}
    /\ win.acq_service \in Services
    /\ svc[win.acq_service].pc = "body"
    /\ svc[win.acq_service].nread = 0
    /\ svc[win.acq_service].save_enabled

\* C29: once stop() has set the flag, the loop publishes at most one more
\* frame, the one of the iteration in flight, and does not start another
\* iteration.
AtMostOneFrameAfterStop ==
    \A s \in Services :
        svc[s].stop_mark >= 0 =>
            Len(svc[s].published) - svc[s].stop_mark <= 1

\* the mode whose slot of the replayed cycle exposed a published frame
SlotMode(t, p) == t.active_modes[((p.slot - 1) % Len(t.active_modes)) + 1]

\* C30: with two or more active modes, once the camera has lost (or repeated)
\* one frame, every frame published afterwards in that run carries a mode
\* other than the mode of the slot that exposed it.
NeverResynchronises ==
    \A s \in Services :
        (svc[s].desync_at >= 0 /\ Len(svc[s].active_modes) >= 2) =>
            \A i \in DOMAIN svc[s].published :
                svc[s].published[i].frame > svc[s].desync_at =>
                    svc[s].published[i].mode
                        # SlotMode(svc[s], svc[s].published[i])

\* the sample at index i when only the first loop of each mode is run
RECURSIVE FirstPassOnly(_, _, _, _, _, _)
FirstPassOnly(i, active_modes, k, mode_spacing, biolum_exp, fluo_exp) ==
    IF k = 0 THEN 0
    ELSE LET mode_index == active_modes[k]
         IN  or_window(FirstPassOnly(i, active_modes, k - 1, mode_spacing,
                                     biolum_exp, fluo_exp),
                       i, (k - 1) * mode_spacing,
                       IF mode_index = 0 THEN biolum_exp ELSE fluo_exp,
                       BitOr(IF mode_index = 0 THEN 0 ELSE Pow2(mode_index + 1),
                             Pow2(TriggerLine)))

\* the pattern of the arguments a without the second loop
PatternOfFirstPass(a) ==
    LET spp == samples_per_period(a.frequency, a.modes)
        n == Len(ActiveModes(a.modes))
        mode_spacing == spp \div (IF n > 1 THEN n ELSE 1)
    IN  IF spp <= 0 THEN <<>>
        ELSE [j \in 1..spp |->
                 FirstPassOnly(j - 1, ActiveModes(a.modes), n, mode_spacing,
                               a.biolum_exp, a.fluo_exp)]

\* C31: the pattern _generate_pattern builds equals the pattern built without
\* its second loop (the illumination bit OR'd alone over the same samples),
\* for every input.
SecondPassRedundant ==
    /\ Loaded => daq.current_pattern = PatternOfFirstPass(ev.args)
    /\ (ev.op = "start_other" /\ daq.task # "None")
          => daq.current_pattern = PatternOfFirstPass(OtherArgs)

\* C31 witness: a pattern with Blue active is loaded and holds a sample with
\* Blue's illumination bit, which both loops have written.
BlueWrittenTwice ==
    /\ Loaded
    /\ ev.args.modes[2]
    /\ \E j \in DOMAIN daq.current_pattern : Bit(daq.current_pattern[j], 2)

\* the mode exposed in slot k (from 1) of the waveform compiled from the
\* arguments a: the one whose illumination line is high on the slot's first
\* sample, Bioluminescence when only the trigger line is
WaveformSlotMode(a, k) ==
    LET am == ActiveModes(a.modes)
        n == Len(am)
        spp == samples_per_period(a.frequency, a.modes)
        mode_spacing == spp \div (IF n > 1 THEN n ELSE 1)
        v == sample_after((k - 1) * mode_spacing, am, n, mode_spacing,
                          a.biolum_exp, a.fluo_exp)
    IN  IF Bit(v, 2) THEN "Blue"
        ELSE IF Bit(v, 3) THEN "Green"
        ELSE IF Bit(v, TriggerLine) THEN "Bioluminescence"
        ELSE "none"

\* C32: for every selection of modes at start, the mode in slot k of the
\* compiled waveform is the mode the loop assigns to the counter values
\* congruent to k modulo the number of selected modes.
SameModeOrder ==
    LET a == start_args(win, ui)
        n == num_active_modes(a.modes)
    IN  svc[1].pc # "none" =>
        \E slots \in {[k \in 1..n |-> WaveformSlotMode(a, k)]} :
            /\ Len(svc[1].active_modes) = n
            /\ \A k \in 1..n : svc[1].active_modes[k] = slots[k]
            /\ \A i \in DOMAIN svc[1].published :
                  svc[1].published[i].mode =
                      slots[(svc[1].published[i].counter % n) + 1]

\* C32 witness: with the three modes selected the loop has gone once round
\* the cycle.
ThreeModesOnceRound ==
    /\ win.checks = ModeNames
    /\ Len(svc[1].published) >= 3
    /\ svc[1].published[3].mode = "Green"

\* C33: at most one loop thread is alive at any time, and a loop thread that
\* is alive is the one the window refers to, so that a stop can reach it.
OneLoopThread ==
    /\ Cardinality({s \in Services : Alive(s)}) <= 1
    /\ \A s \in Services : Alive(s) => win.acq_service = s

\* C34: whenever stop_acquisition returns, the state is IDLE, no loop thread
\* is alive, and the controller and the device hold no live task, whichever
\* of its steps failed.
StopLeavesIdle ==
    [][(main_pc = "stop_wait" /\ main_pc' = "idle")
          => /\ win'.acquisition_state = "IDLE"
             /\ \A s \in Services : ~Alive(s)'
             /\ ~daq'.running
             /\ hw'.live = 0]_vars

\* C35: when the window has stopped the loop, in stop_acquisition or in
\* closeEvent, the controller holds no live task, the device replays no
\* pattern and the output lines are low.
SequencerStoppedWithLoop ==
    [][(\/ main_pc = "stop_wait" /\ main_pc' = "idle"
        \/ main_pc = "close_wait" /\ main_pc' = "closed")
          => /\ ~daq'.running
             /\ hw'.live = 0
             /\ hw'.lines_low]_vars

\* the field holds None (a pattern is a value of another kind, which TLC
\* cannot compare with a string)
IsNone(x) == ToString(x) = ToString("None")

\* the cleared state of the controller's three fields
Cleared == ~daq.running /\ daq.task = "None" /\ IsNone(daq.current_pattern)

\* C36: between calls, running implies a task and a pattern, not running
\* implies neither; after stop_task has returned, and after start_task has
\* returned False or raised, the three fields are cleared.
FieldsConsistent ==
    /\ daq.running => daq.task # "None" /\ ~IsNone(daq.current_pattern)
    /\ ~daq.running => Cleared
    /\ ev.op = "stop_task" => Cleared
    /\ (ev.op \in {"start_task", "start_other"} /\ ~ev.res) => Cleared

\* C36 witness: stop_task was called on a running task, a device call of it
\* failed, and it returned False.
StopFailedOnLiveTask ==
    /\ ev.op = "stop_task"
    /\ ~ev.res
    /\ hw.open = 1
    /\ Cleared

\* get_statistics, frames_per_mode: the saved frames of the k-th active mode
FramesOfMode(t, k) == Len(t.saved_images[t.active_modes[k]])

\* the saved frames of the first k active modes together
RECURSIVE FramesOfFirst(_, _)
FramesOfFirst(t, k) ==
    IF k = 0 THEN 0 ELSE FramesOfFirst(t, k - 1) + FramesOfMode(t, k)

\* C37: in a run with saving enabled and no iteration fault, between two
\* iterations the per-mode saved counts sum to the cycle counter, two modes'
\* counts differ by at most 1, and a mode earlier in the cycle never has
\* fewer saved frames than a later one.
SavedCountsBalanced ==
    LET t == svc[1]
        n == Len(t.active_modes)
    IN  (t.pc \in {"while", "body", "done"} /\ t.save_enabled /\ t.nfaults = 0)
            => /\ FramesOfFirst(t, n) = t.image_counter
               /\ \A j, k \in 1..n :
                     /\ FramesOfMode(t, j) - FramesOfMode(t, k) <= 1
                     /\ j < k => FramesOfMode(t, j) >= FramesOfMode(t, k)

\* C37 witness: a saving run of three modes without fault stands in the
\* middle of its second cycle, the first mode one frame ahead of the others.
SavingRunMidCycle ==
    /\ svc[1].save_enabled
    /\ svc[1].nfaults = 0
    /\ Len(svc[1].active_modes) = 3
    /\ svc[1].image_counter = 4
    /\ FramesOfMode(svc[1], 1) = 2
    /\ FramesOfMode(svc[1], 3) = 1

====
